---- MODULE Spec2Model ----
(***************************************************************************)
(* State machine of the chat session in src/components/Chat.tsx: the       *)
(* AIChat component, its useSpeechRecognition hook, the speak helper and   *)
(* the collaborators they call (persistence, response generation, the      *)
(* recognition engine and the synthesis engine).                           *)
(*                                                                         *)
(* Every handler runs to completion on the single JavaScript thread, so    *)
(* one action is one handler together with the render and the effects it   *)
(* causes.  Text is a sequence of one-character strings.  The variable     *)
(* calls records, in program order, the calls the last handler made.       *)
(***************************************************************************)
EXTENDS Integers, Sequences, FiniteSets, TLC

VARIABLES
    storageConsent,   \* prop storageConsent (line 102)
    recogSupported,   \* recognitionRef.current # null (lines 50-55, 78)
    synthSupported,   \* window.speechSynthesis is defined (line 12)
    messages,         \* useState messages (line 111)
    input,            \* useState input (line 121)
    isLoading,        \* useState isLoading (line 122)
    speechText,       \* useState text of the hook (line 45)
    isRecording,      \* useState isRecording of the hook (line 46)
    engine,           \* state of the SpeechRecognition object
    playing,          \* utterance the synthesis engine is playing
    store,            \* what the persistence collaborator holds
    pending,          \* getChatResponse promises not yet settled
    event,            \* name of the last handler
    eventResults,     \* event.results given to the last handler, when it
                      \* is recognition.onresult
    calls             \* calls made by the last handler, in order; an uncaught
                      \* exception ends the list with a throw entry

vars == <<storageConsent, recogSupported, synthSupported, messages, input,
          isLoading, speechText, isRecording, engine, playing, store,
          pending, event, eventResults,
          calls>>

----------------------------------------------------------------------------
(* Bounds *)

\* longest transcript an accepted submit may start from, counted with the
\* user message and the response it adds
MaxMsgs == 3
\* longest result list of one recognition update
MaxResults == 1
\* longest result list handed to recognition.onresult on its own
MaxLiveEntries == 3

----------------------------------------------------------------------------
(* Text *)

Space == " "
Segments == {<<"a">>, <<Space>>, <<Space, "a">>}

RECURSIVE TrimStart(_)
TrimStart(s) ==
    IF s # <<>> /\ Head(s) = Space THEN TrimStart(Tail(s)) ELSE s

RECURSIVE TrimEnd(_)
TrimEnd(s) ==
    IF s # <<>> /\ s[Len(s)] = Space
    THEN TrimEnd(SubSeq(s, 1, Len(s) - 1))
    ELSE s

\* String.prototype.trim
Trim(s) == TrimEnd(TrimStart(s))

----------------------------------------------------------------------------
(* Messages and the fixed texts *)

GreetingText == <<"G">>
ApologyText == <<"S">>
ResponseTexts == {<<"r">>}
ErrorTexts == {<<"e">>}

Msg(r, c) == [role |-> r, content |-> c]

initialMessage == Msg("model", GreetingText)

Call(o, t, m) == [op |-> o, text |-> t, msgs |-> m]

\* an exception no handler catches
Throw(name) == <<Call("throw", <<name>>, <<>>)>>

NoUtterance == [active |-> FALSE, text |-> <<>>]
Utterance(t) == [active |-> TRUE, text |-> t]

\* histories a previous session may have left in the persistence collaborator
SavedStores ==
    { <<>>,
      <<initialMessage, Msg("user", <<"a">>), Msg("model", <<"r">>)>> }

Consents == {"pending", "accepted", "declined"}

----------------------------------------------------------------------------
(* Transcript store: lines 111-119 and 140-144 *)

\* InitialMessages with the length test of line 114 left out
InitialMessagesNoLengthTest(consent, saved) ==
    IF consent = "accepted" THEN saved ELSE <<initialMessage>>

\* lazy initial state of messages
InitialMessages(consent, saved) ==
    IF consent = "accepted" /\ Len(saved) > 0
    THEN saved
    ELSE <<initialMessage>>

LoadCalls(consent) ==
    IF consent = "accepted"
    THEN <<Call("loadChatHistory", <<>>, <<>>)>>
    ELSE <<>>

\* SaveGuard with the consent test of line 141 left out
SaveGuardNoConsent(msgs) == Len(msgs) > 1

\* SaveGuard with the length test of line 141 left out
SaveGuardNoLength(msgs) == storageConsent = "accepted"

\* condition of the save effect
SaveGuard(msgs) == storageConsent = "accepted" /\ Len(msgs) > 1

\* the save effect, run after a render in which messages changed
SaveCalls(msgs) ==
    IF SaveGuard(msgs)
    THEN <<Call("saveChatHistory", <<>>, msgs)>>
    ELSE <<>>

StoreAfterSave(st, msgs) == IF SaveGuard(msgs) THEN msgs ELSE st

----------------------------------------------------------------------------
(* Speech playback: lines 11-21 *)

speakCalls(t) ==
    <<Call("speak", t, <<>>)>> \o
    ( IF synthSupported
      THEN <<Call("speechSynthesis.cancel", <<>>, <<>>),
             Call("speechSynthesis.speak", t, <<>>)>>
      ELSE <<Call("console.warn", <<>>, <<>>)>> )

playingAfterSpeak(t) == IF synthSupported THEN Utterance(t) ELSE playing

----------------------------------------------------------------------------
(* Speech capture hook: lines 44-95 *)

\* recognition.onresult: finalized entries first, then interim entries
RECURSIVE FinalTranscript(_)
FinalTranscript(results) ==
    IF results = <<>> THEN <<>>
    ELSE ( IF Head(results).isFinal THEN Head(results).transcript ELSE <<>> )
         \o FinalTranscript(Tail(results))

RECURSIVE InterimTranscript(_)
InterimTranscript(results) ==
    IF results = <<>> THEN <<>>
    ELSE ( IF Head(results).isFinal THEN <<>> ELSE Head(results).transcript )
         \o InterimTranscript(Tail(results))

\* LiveText that appends every transcript to one string, in list order
RECURSIVE LiveTextAsReported(_)
LiveTextAsReported(results) ==
    IF results = <<>> THEN <<>>
    ELSE Head(results).transcript \o LiveTextAsReported(Tail(results))

LiveText(results) == FinalTranscript(results) \o InterimTranscript(results)

Entries == [transcript : Segments, isFinal : BOOLEAN]

\* SpeechRecognitionEvent.results: final results, then interim results
FinalsFirst(results) ==
    \A i, j \in 1..Len(results) :
        (i < j /\ results[j].isFinal) => results[i].isFinal

ResultLists ==
    { results \in UNION { [1..n -> Entries] : n \in 1..MaxResults } :
        FinalsFirst(results) }

\* every list the type SpeechRecognitionResultList admits
AnyResultLists == UNION { [1..n -> Entries] : n \in 1..MaxLiveEntries }

\* guard of startRecording
CanStart == recogSupported /\ ~isRecording

\* CanStop with the isRecording test of line 89 left out
CanStopAlways == recogSupported

\* guard of stopRecording
CanStop == recogSupported /\ isRecording

\* SpeechRecognition.start: InvalidStateError unless the engine is inactive
EngineStartThrows == engine # "inactive"

\* SpeechRecognition.stop: the engine winds down and reports onend later
EngineAfterStop == IF engine = "capturing" THEN "stopping" ELSE engine

\* effects of one call of startRecording
startRecording ==
    IF CanStart
    THEN IF EngineStartThrows
         THEN [speechText |-> <<>>, isRecording |-> isRecording,
               engine |-> engine,
               calls |-> <<Call("recognition.start", <<>>, <<>>)>>
                           \o Throw("InvalidStateError")]
         ELSE [speechText |-> <<>>, isRecording |-> TRUE,
               engine |-> "capturing",
               calls |-> <<Call("recognition.start", <<>>, <<>>)>>]
    ELSE [speechText |-> speechText, isRecording |-> isRecording,
          engine |-> engine, calls |-> <<>>]

\* effects of one call of stopRecording
stopRecording ==
    IF CanStop
    THEN [isRecording |-> FALSE, engine |-> EngineAfterStop,
          calls |-> <<Call("recognition.stop", <<>>, <<>>)>>]
    ELSE [isRecording |-> isRecording, engine |-> engine, calls |-> <<>>]

\* InputEffect that fills the input only while it is empty
InputEffectOnlyIfEmpty(oldText, newText, inp) ==
    IF newText # oldText /\ newText # <<>> /\ inp = <<>> THEN newText ELSE inp

\* effect "Update input field from speech", run when speechText changed
InputEffect(oldText, newText, inp) ==
    IF newText # oldText /\ newText # <<>> THEN newText ELSE inp

----------------------------------------------------------------------------
(* The session after the component has mounted: lines 105-151 *)

Init ==
    /\ storageConsent \in Consents
    /\ recogSupported \in BOOLEAN
    /\ synthSupported \in BOOLEAN
    /\ store \in SavedStores
    /\ messages = InitialMessages(storageConsent, store)
    /\ input = <<>>
    /\ isLoading = FALSE
    /\ speechText = <<>>
    /\ isRecording = FALSE
    /\ engine = "inactive"
    /\ playing = NoUtterance
    /\ pending = <<>>
    /\ event = "mount"
    /\ eventResults = <<>>
    /\ calls = LoadCalls(storageConsent) \o SaveCalls(messages)

env == <<storageConsent, recogSupported, synthSupported>>

----------------------------------------------------------------------------
(* handleSendMessage up to the await: lines 154-171 *)

\* SendRejected with the isLoading test of line 157 left out
SendRejectedNoBusy == Trim(input) = <<>>

\* SendRejected with the trim of line 157 left out
SendRejectedNoTrim == input = <<>> \/ isLoading

\* the early return of line 157
SendRejected == Trim(input) = <<>> \/ isLoading

\* userMessage of line 163
userMessage == Msg("user", input)

\* calls of an accepted submit, lines 160-171
SendCalls(stopCalls, history) ==
    stopCalls \o
    <<Call("speechSynthesis.cancel", <<>>, <<>>),
      Call("setMessages", <<>>, <<userMessage>>),
      Call("getChatResponse", <<>>, history)>>

handleSendMessage ==
    /\ event' = "handleSendMessage"
    /\ eventResults' = <<>>
    /\ IF SendRejected
       THEN /\ calls' = <<>>
            /\ UNCHANGED <<env, messages, input, isLoading, speechText,
                           isRecording, engine, playing, store, pending>>
       ELSE /\ Len(messages) + 2 <= MaxMsgs
            /\ isRecording' = stopRecording.isRecording
            /\ engine' = stopRecording.engine
            /\ IF ~synthSupported
               THEN \* window.speechSynthesis.cancel() of line 161 throws
                    /\ calls' = stopRecording.calls \o Throw("TypeError")
                    /\ UNCHANGED <<env, messages, input, isLoading,
                                   speechText, playing, store, pending>>
               ELSE LET msgs == Append(messages, userMessage)
                        chatHistory == Append(messages, userMessage)
                    IN /\ playing' = NoUtterance
                       /\ messages' = msgs
                       /\ input' = <<>>
                       /\ speechText' = <<>>
                       /\ isLoading' = TRUE
                       /\ pending' = Append(pending, chatHistory)
                       /\ store' = StoreAfterSave(store, msgs)
                       /\ calls' = SendCalls(stopRecording.calls, chatHistory)
                                     \o SaveCalls(msgs)
                       /\ UNCHANGED env

----------------------------------------------------------------------------
(* handleSendMessage after the await: lines 171-189 *)

Remove(seq, i) == SubSeq(seq, 1, i - 1) \o SubSeq(seq, i + 1, Len(seq))

\* modelMessage of line 172
modelMessage(response) == Msg("model", response)

\* errorMessage carrying the text of the caught error
errorMessageRaw(error) == Msg("model", error)

\* errorMessage of lines 180-183
errorMessage(error) == Msg("model", ApologyText)

\* SuccessCalls with the speak call of line 176 left out
SuccessCallsSilent(response) ==
    <<Call("setMessages", <<>>, <<modelMessage(response)>>)>>

\* lines 173-176
SuccessCalls(response) ==
    <<Call("setMessages", <<>>, <<modelMessage(response)>>)>>
    \o speakCalls(modelMessage(response).content)

\* FailureCalls with lines 184 and 186 exchanged
FailureCallsSpeakFirst(error) ==
    <<Call("console.error", error, <<>>)>>
    \o speakCalls(errorMessage(error).content)
    \o <<Call("setMessages", <<>>, <<errorMessage(error)>>)>>

\* lines 179-186
FailureCalls(error) ==
    <<Call("console.error", error, <<>>),
      Call("setMessages", <<>>, <<errorMessage(error)>>)>>
    \o speakCalls(errorMessage(error).content)

\* MessagesAfterResponse appending to the transcript the request was sent
\* with (chatHistory of line 170) instead of the current one
MessagesFromRequestHistory(i, msg) == Append(pending[i], msg)

\* setMessages(prev => [...prev, message]) of lines 173 and 184
MessagesAfterResponse(i, msg) == Append(messages, msg)

\* LoadingAfterResponse without the finally block of lines 187-189
LoadingStaysSet == isLoading

\* setIsLoading(false) of line 188
LoadingAfterResponse == FALSE

Settle(i, msg, handlerCalls) ==
    LET msgs == MessagesAfterResponse(i, msg)
    IN /\ pending' = Remove(pending, i)
       /\ messages' = msgs
       /\ playing' = playingAfterSpeak(msg.content)
       /\ isLoading' = LoadingAfterResponse
       /\ store' = StoreAfterSave(store, msgs)
       /\ calls' = handlerCalls \o SaveCalls(msgs)
       /\ UNCHANGED <<env, input, speechText, isRecording, engine>>

ResponseSuccess ==
    \E i \in 1..Len(pending), response \in ResponseTexts :
        /\ event' = "response.success"
        /\ eventResults' = <<>>
        /\ Settle(i, modelMessage(response), SuccessCalls(response))

ResponseFailure ==
    \E i \in 1..Len(pending), error \in ErrorTexts :
        /\ event' = "response.failure"
        /\ eventResults' = <<>>
        /\ Settle(i, errorMessage(error), FailureCalls(error))

----------------------------------------------------------------------------
(* handleClearChat: lines 192-200 *)

\* the transcript Clear chat installs, line 196
ClearedMessages == <<initialMessage>>

ClearStoreCalls ==
    IF storageConsent = "accepted"
    THEN <<Call("clearChatHistory", <<>>, <<>>)>>
    ELSE <<>>

\* StoreAfterClear with clearChatHistory of line 194 left out
StoreAfterClearKeeps == store

\* the store after lines 193-195
StoreAfterClear == IF storageConsent = "accepted" THEN <<>> ELSE store

handleClearChat ==
    /\ event' = "handleClearChat"
    /\ eventResults' = <<>>
    /\ messages' = ClearedMessages
    /\ store' = StoreAfterSave(StoreAfterClear, ClearedMessages)
    /\ IF synthSupported
       THEN /\ playing' = NoUtterance
            /\ isRecording' = stopRecording.isRecording
            /\ engine' = stopRecording.engine
            /\ calls' = ClearStoreCalls
                          \o <<Call("setMessages", <<>>, ClearedMessages),
                               Call("speechSynthesis.cancel", <<>>, <<>>)>>
                          \o stopRecording.calls
                          \o SaveCalls(ClearedMessages)
       ELSE \* window.speechSynthesis.cancel() of line 198 throws
            /\ calls' = ClearStoreCalls
                          \o <<Call("setMessages", <<>>, ClearedMessages)>>
                          \o Throw("TypeError")
                          \o SaveCalls(ClearedMessages)
            /\ UNCHANGED <<playing, isRecording, engine>>
    /\ UNCHANGED <<env, input, isLoading, speechText, pending>>

----------------------------------------------------------------------------
(* Recording controls: lines 81-93 and 203-209 *)

ApplyStart ==
    /\ speechText' = startRecording.speechText
    /\ input' = InputEffect(speechText, startRecording.speechText, input)
    /\ isRecording' = startRecording.isRecording
    /\ engine' = startRecording.engine
    /\ calls' = startRecording.calls
    /\ UNCHANGED <<env, messages, isLoading, playing, store, pending>>

ApplyStop ==
    /\ isRecording' = stopRecording.isRecording
    /\ engine' = stopRecording.engine
    /\ calls' = stopRecording.calls
    /\ UNCHANGED <<env, messages, input, isLoading, speechText, playing,
                   store, pending>>

\* micDisabled with the button never disabled
micDisabledNever == FALSE

\* disabled={isLoading} of the microphone button (line 284)
micDisabled == isLoading

handleToggleRecording ==
    /\ ~micDisabled
    /\ event' = "handleToggleRecording"
    /\ eventResults' = <<>>
    /\ IF isRecording THEN ApplyStop ELSE ApplyStart

\* startRecording of the hook called whatever isRecording is
CallStartRecording ==
    /\ ~micDisabled
    /\ event' = "startRecording"
    /\ eventResults' = <<>>
    /\ ApplyStart

\* stopRecording of the hook called whatever isRecording is
CallStopRecording ==
    /\ ~micDisabled
    /\ event' = "stopRecording"
    /\ eventResults' = <<>>
    /\ ApplyStop

----------------------------------------------------------------------------
(* Events of the recognition engine: lines 60-77 *)

\* the handler run with the result list rs
Deliver(rs) ==
    /\ engine \in {"capturing", "stopping"}
    /\ event' = "recognition.onresult"
    /\ eventResults' = rs
    /\ speechText' = LiveText(rs)
    /\ input' = InputEffect(speechText, LiveText(rs), input)
    /\ calls' = <<>>
    /\ UNCHANGED <<env, messages, isLoading, isRecording, engine,
                   playing, store, pending>>

onresult == \E rs \in ResultLists : Deliver(rs)

onerror ==
    /\ engine = "capturing"
    /\ event' = "recognition.onerror"
    /\ eventResults' = <<>>
    /\ engine' = "stopping"
    /\ calls' = <<Call("console.error", <<>>, <<>>)>>
    /\ UNCHANGED <<env, messages, input, isLoading, speechText, isRecording,
                   playing, store, pending>>

onend ==
    /\ engine \in {"capturing", "stopping"}
    /\ event' = "recognition.onend"
    /\ eventResults' = <<>>
    /\ engine' = "inactive"
    /\ isRecording' = FALSE
    /\ calls' = <<>>
    /\ UNCHANGED <<env, messages, input, isLoading, speechText, playing,
                   store, pending>>

----------------------------------------------------------------------------
(* Text input and the synthesis engine *)

\* disabled={isLoading} of the text input (line 272)
inputDisabled == isLoading

\* onChange of line 269 reads e.targe.value: TypeError, setInput is not reached
inputChange ==
    /\ ~inputDisabled
    /\ event' = "input.onChange"
    /\ eventResults' = <<>>
    /\ calls' = Throw("TypeError")
    /\ UNCHANGED <<env, messages, input, isLoading, speechText, isRecording,
                   engine, playing, store, pending>>

\* the utterance of lines 17-20 plays to its end
utteranceEnd ==
    /\ playing.active
    /\ event' = "utterance.end"
    /\ eventResults' = <<>>
    /\ playing' = NoUtterance
    /\ calls' = <<>>
    /\ UNCHANGED <<env, messages, input, isLoading, speechText, isRecording,
                   engine, store, pending>>

----------------------------------------------------------------------------

Next ==
    \/ handleSendMessage
    \/ ResponseSuccess
    \/ ResponseFailure
    \/ handleClearChat
    \/ handleToggleRecording
    \/ CallStartRecording
    \/ CallStopRecording
    \/ onresult
    \/ onerror
    \/ onend
    \/ inputChange
    \/ utteranceEnd

Spec == Init /\ [][Next]_vars

\* recognition.onresult on its own: a session that is capturing, and the
\* handler run with any result list
LiveInit ==
    /\ storageConsent = "pending"
    /\ recogSupported = TRUE
    /\ synthSupported = TRUE
    /\ store = <<>>
    /\ messages = InitialMessages(storageConsent, store)
    /\ input = <<>>
    /\ isLoading = FALSE
    /\ speechText = <<>>
    /\ isRecording = TRUE
    /\ engine = "capturing"
    /\ playing = NoUtterance
    /\ pending = <<>>
    /\ event = "startRecording"
    /\ eventResults = <<>>
    /\ calls = <<Call("recognition.start", <<>>, <<>>)>>

LiveNext == \E rs \in AnyResultLists : Deliver(rs)

LiveSpec == LiveInit /\ [][LiveNext]_vars

\* getChatResponse settles: its promise resolves or rejects
FairSpec == Spec /\ WF_vars(ResponseSuccess \/ ResponseFailure)

----------------------------------------------------------------------------
(* Properties *)

HasCall(cs, o) == \E i \in 1..Len(cs) : cs[i].op = o

PersistenceOps == {"loadChatHistory", "saveChatHistory", "clearChatHistory"}

\* C1: in every reachable state the in-memory transcript holds at least
\* one message.
C1_TranscriptNeverEmpty == Len(messages) >= 1

\* Clear chat pressed while a request is in flight
C1_Witness ==
    /\ event = "handleClearChat"
    /\ pending # <<>>
    /\ messages = <<initialMessage>>

\* C2: at most one getChatResponse promise is outstanding, and a submit
\* made while isLoading appends no message and issues no generation call.
C2_AtMostOneRequest ==
    /\ [](Len(pending) <= 1)
    /\ [][ (event' = "handleSendMessage" /\ isLoading)
             => /\ messages' = messages
                /\ pending' = pending
                /\ ~HasCall(calls', "getChatResponse") ]_vars

\* a submit with non-blank input made while a response is awaited
C2_Witness ==
    /\ event = "handleSendMessage"
    /\ isLoading
    /\ Len(pending) = 1
    /\ Trim(input) # <<>>
    /\ calls = <<>>

\* C3: every speak call of a handler follows, in the same handler, the
\* setMessages call that appends the model message with the spoken content.
C3_AppendBeforeSpeak ==
    \A i \in 1..Len(calls) :
        calls[i].op = "speak"
            => \E j \in 1..(i - 1) :
                   /\ calls[j].op = "setMessages"
                   /\ calls[j].msgs = <<Msg("model", calls[i].text)>>

\* a failed request whose apology was appended and spoken
C3_Witness ==
    /\ event = "response.failure"
    /\ HasCall(calls, "speak")
    /\ messages[Len(messages)] = Msg("model", ApologyText)

\* C4: unless consent is accepted, no handler calls loadChatHistory,
\* saveChatHistory or clearChatHistory.
C4_NoPersistenceWithoutConsent ==
    storageConsent # "accepted"
        => \A i \in 1..Len(calls) : calls[i].op \notin PersistenceOps

\* consent declined, a saved history present, and a transcript of three
\* messages just completed
C4_Witness ==
    /\ storageConsent = "declined"
    /\ store # <<>>
    /\ event = "response.success"
    /\ Len(messages) = 3

\* C5: a submit made while isLoading, or with input that is empty after
\* trimming, changes nothing and calls nothing.
C5_RejectedSubmitChangesNothing ==
    [][ (event' = "handleSendMessage" /\ (isLoading \/ Trim(input) = <<>>))
          => /\ messages' = messages
             /\ input' = input
             /\ speechText' = speechText
             /\ isLoading' = isLoading
             /\ isRecording' = isRecording
             /\ engine' = engine
             /\ playing' = playing
             /\ store' = store
             /\ pending' = pending
             /\ calls' = <<>> ]_vars

\* a submit of whitespace-only input while idle and recording
C5_Witness ==
    /\ event = "handleSendMessage"
    /\ ~isLoading
    /\ isRecording
    /\ input # <<>>
    /\ Trim(input) = <<>>
    /\ calls = <<>>

\* the calls of cs that are speak calls, in order
RECURSIVE SpokenTexts(_)
SpokenTexts(cs) ==
    IF cs = <<>> THEN <<>>
    ELSE ( IF Head(cs).op = "speak" THEN <<Head(cs).text>> ELSE <<>> )
         \o SpokenTexts(Tail(cs))

\* C6: when getChatResponse fails, the transcript gains exactly one model
\* message, the fixed apology and not the error's text; speak is called
\* once, with the apology; isLoading is cleared.
C6_FailureAppendsApology ==
    [][ event' = "response.failure"
          => /\ messages' = Append(messages, Msg("model", ApologyText))
             /\ messages'[Len(messages')].content \notin ErrorTexts
             /\ SpokenTexts(calls') = <<ApologyText>>
             /\ ~isLoading' ]_vars

\* a failed request settled on the transcript it was sent from
C6_Witness ==
    /\ event = "response.failure"
    /\ Len(messages) = 3
    /\ messages[2].role = "user"
    /\ messages[3] = Msg("model", ApologyText)
    /\ ~isLoading
    /\ pending = <<>>

\* C7: every step that appends a model message makes exactly one speak
\* call, with that message's content; a successful response to the first
\* submit of a fresh session leaves [greeting, user message, response],
\* spoken once.
AppendsModelMessage ==
    /\ Len(messages') = Len(messages) + 1
    /\ SubSeq(messages', 1, Len(messages)) = messages
    /\ messages'[Len(messages')].role = "model"

\* the response to the first submit of a fresh session arrives
FirstExchangeSucceeds ==
    /\ event' = "response.success"
    /\ Len(messages) = 2
    /\ messages[1] = initialMessage
    /\ messages[2].role = "user"
    /\ pending = <<messages>>

C7_OneSpeakPerModelMessage ==
    [][ /\ AppendsModelMessage
            => SpokenTexts(calls') = <<messages'[Len(messages')].content>>
        /\ FirstExchangeSucceeds
            => \E response \in ResponseTexts :
                   /\ messages' = Append(messages, Msg("model", response))
                   /\ SpokenTexts(calls') = <<response>> ]_vars

\* the first exchange of a fresh session, completed
C7_Witness ==
    /\ event = "response.success"
    /\ Len(messages) = 3
    /\ messages[1] = initialMessage
    /\ messages[2].role = "user"
    /\ messages[3].role = "model"
    /\ messages[3].content \in ResponseTexts
    /\ SpokenTexts(calls) = <<messages[3].content>>

\* C8: Clear chat with consent accepted and a transcript of two or more
\* messages leaves the store erased, the transcript [greeting], the
\* recording inactive and no utterance playing.
C8_ClearResetsSession ==
    [][ ( /\ event' = "handleClearChat"
          /\ storageConsent = "accepted"
          /\ Len(messages) >= 2 )
          => /\ store' = <<>>
             /\ messages' = <<initialMessage>>
             /\ ~isRecording'
             /\ ~playing'.active ]_vars

\* C9: stopRecording while not recording, and startRecording while
\* recording, leave isRecording and the live text as they are and call
\* neither recognition.start nor recognition.stop.
C9_IdempotentStartStop ==
    [][ ( \/ (event' = "stopRecording" /\ ~isRecording)
          \/ (event' = "startRecording" /\ isRecording) )
          => /\ isRecording' = isRecording
             /\ speechText' = speechText
             /\ engine' = engine
             /\ ~HasCall(calls', "recognition.start")
             /\ ~HasCall(calls', "recognition.stop") ]_vars

\* stopRecording called after the engine ended the capture by itself
C9_Witness ==
    /\ event = "stopRecording"
    /\ recogSupported
    /\ ~isRecording
    /\ speechText # <<>>
    /\ calls = <<>>

\* C10: every saveChatHistory call carries a transcript of two or more
\* messages.
C10_SaveOnlyTwoOrMore ==
    \A i \in 1..Len(calls) :
        calls[i].op = "saveChatHistory" => Len(calls[i].msgs) >= 2

\* the first save of a fresh session: the greeting and the user message
C10_Witness ==
    /\ event = "handleSendMessage"
    /\ HasCall(calls, "saveChatHistory")
    /\ Len(messages) = 2
    /\ store = messages


C12_UserMessageIsTrimmed ==
    [][ (event' = "handleSendMessage" /\ Len(messages') = Len(messages) + 1)
          => messages'[Len(messages')] = Msg("user", Trim(input)) ]_vars


\* C13: pressing the microphone button while not recording leaves both the
\* input and the live text empty.
C13_ToggleOnClearsInput ==
    [][ (event' = "handleToggleRecording" /\ ~isRecording)
          => (input' = <<>> /\ speechText' = <<>>) ]_vars


\* C14: Clear chat pressed while a request is in flight keeps the request and
\* installs [greeting]; the response, success or failure, then appends one
\* model message to it.
C14_ResponseAfterClear ==
    [][ /\ (event' = "handleClearChat" /\ pending # <<>>)
            => /\ pending' = pending
               /\ isLoading' = isLoading
               /\ messages' = <<initialMessage>>
        /\ ( /\ event' \in {"response.success", "response.failure"}
             /\ messages = <<initialMessage>> )
            => /\ Len(messages') = 2
               /\ messages'[1] = initialMessage
               /\ messages'[2].role = "model"
               /\ messages'[2].content \in ResponseTexts \cup {ApologyText}
               /\ pending' = <<>> ]_vars

\* a failed request settled on the cleared transcript
C14_Witness ==
    /\ event = "response.failure"
    /\ messages = <<initialMessage, Msg("model", ApologyText)>>
    /\ pending = <<>>
    /\ ~isLoading


\* C15: when getChatResponse settles, a session that is awaiting a response
\* returns to idle, whatever is pressed in between.
C15_BusyEventuallyCleared == isLoading ~> ~isLoading

\* a response that arrived after Clear chat was pressed during the wait
C15_Witness ==
    /\ event = "response.success"
    /\ ~isLoading
    /\ pending = <<>>
    /\ Len(messages) = 2
    /\ messages[2].role = "model"


\* the transcripts of the entries of rs, appended in the order of the list
RECURSIVE ReportedOrder(_)
ReportedOrder(rs) ==
    IF rs = <<>> THEN <<>>
    ELSE Head(rs).transcript \o ReportedOrder(Tail(rs))

IsFinal(e) == e.isFinal

IsInterim(e) == ~e.isFinal

C17_OnlySubmitBlockedWhileBusy ==
    isLoading =>
        /\ SendRejected
        /\ ENABLED handleToggleRecording
        /\ ENABLED handleClearChat
        /\ ENABLED inputChange

\* C17: while the session is awaiting a response, clear session remains
\* enabled; submissions are rejected and the microphone button and the
\* text input are disabled.
C17_OnlyClearEnabledWhileBusy ==
    isLoading =>
        /\ SendRejected
        /\ ENABLED handleClearChat
        /\ ~ENABLED handleToggleRecording
        /\ ~ENABLED inputChange

\* Clear chat pressed while awaiting a response, after a late recognition
\* result has put text into the disabled input
C17_Witness ==
    /\ event = "handleClearChat"
    /\ isLoading
    /\ Len(pending) = 1
    /\ messages = <<initialMessage>>
    /\ input = <<"a">>


\* C18: in every reachable state isRecording is true exactly when the
\* engine has an active session, and the state after an onend of the
\* engine never has isRecording false while the engine is capturing.
C18_FlagAgreesWithEngine ==
    /\ isRecording <=> engine # "inactive"
    /\ event = "recognition.onend" => ~(engine = "capturing" /\ ~isRecording)


\* C19: a recognition result that the engine delivers right after an
\* accepted submit made while recording (after the submit's
\* recognition.stop, before onend) leaves the pending input and the live
\* text empty.
C19_LateResultLeavesInputEmpty ==
    [][ ( /\ event = "handleSendMessage"
          /\ HasCall(calls, "recognition.stop")
          /\ HasCall(calls, "getChatResponse")
          /\ event' = "recognition.onresult" )
          => /\ input' = <<>>
             /\ speechText' = <<>> ]_vars


\* C20: with consent accepted, after every handler the store is empty or
\* holds exactly the in-memory transcript.
C20_StoreEmptyOrTranscript ==
    storageConsent = "accepted" => (store = <<>> \/ store = messages)

\* a response that arrived after Clear chat, saved with the greeting
C20_Witness ==
    /\ storageConsent = "accepted"
    /\ event \in {"response.success", "response.failure"}
    /\ Len(messages) = 2
    /\ messages[2].role = "model"
    /\ store = messages

====
